---- MODULE Spec2Model ----
\* Model of the realtime voice session of src/App.tsx: the session status,
\* the playback scheduler (nextStartTimeRef, sourcesRef), the transcription
\* aggregator (transcriptionBufferRef, messages) and the stream callbacks
\* (onopen, onmessage, onerror, onclose) of every session the user starts.
\*
\* Every await of the source (getUserMedia, sessionPromise, decodeAudioData)
\* is a suspension point: the handler is split there and other handlers may
\* run in between.  The stream, the microphone and the audio clock are the
\* environment; their events are drawn nondeterministically.
EXTENDS Integers, Sequences, FiniteSets, TLC

\* ---------------------------------------------------------------- bounds
\* Spec: the session's life
MaxStarts   == 2    \* start requests (sessions) in one run
MaxMsgs     == 2    \* inbound messages handled in one run
\* SpecSched: the playback scheduler
SchedStarts == 1    \* the scheduler is followed through one session
SchedMsgs   == 3
MaxNow      == 2    \* ticks of real time in one run
MaxDur      == 2    \* longest decoded buffer, in ticks
\* SpecCapture: the microphone frames
MaxFrames   == 2    \* onaudioprocess events in one run
\* SpecText: the transcription aggregator
TextStarts  == 1
MaxTextMsgs == 2

\* process.env.API_KEY is fixed when the bundle is built; the model is of a
\* build that has one (the acquisition failure path is getUserMedia's).
apiKey == TRUE

Max(a, b) == IF a >= b THEN a ELSE b

Sessions  == 1..Max(MaxStarts, Max(SchedStarts, TextStarts))
Durations == 1..MaxDur

\* SessionStatus, src/types.ts
IDLE       == "IDLE"
CONNECTING == "CONNECTING"
ACTIVE     == "ACTIVE"
ERROR      == "ERROR"
SessionStatus == {IDLE, CONNECTING, ACTIVE, ERROR}

\* ------------------------------------------------------------------ text
\* Text is a sequence of characters; " " is the whitespace character.
Fragments == {<< >>, <<"a">>, <<" ">>}    \* << >>: the field is absent

RECURSIVE TrimStart(_)
TrimStart(s) ==
  IF s = << >> THEN << >>
  ELSE IF Head(s) = " " THEN TrimStart(Tail(s)) ELSE s

RECURSIVE TrimEnd(_)
TrimEnd(s) ==
  IF s = << >> THEN << >>
  ELSE IF s[Len(s)] = " " THEN TrimEnd(SubSeq(s, 1, Len(s) - 1)) ELSE s

\* Only leading whitespace is removed (a faulty trim).
trim_startOnly(s) == TrimStart(s)

\* String.prototype.trim
trim(s) == TrimEnd(TrimStart(s))

\* ------------------------------------------------------ inbound messages
\* The inlineData of a message: absent ("none"), transport text that does
\* not decode ("bad"), or text that decodes to a buffer of duration dur.
AudioPayloads ==
  {[kind |-> "none", dur |-> 0], [kind |-> "bad", dur |-> 0]}
    \cup {[kind |-> "pcm", dur |-> d] : d \in Durations}

\* LiveServerMessage as far as onmessage reads it.
Msgs ==
  [ inputTranscription  : Fragments,
    outputTranscription : Fragments,
    turnComplete        : BOOLEAN,
    audio               : AudioPayloads,
    interrupted         : BOOLEAN ]

\* decode of utils/audio-utils.ts: fails on malformed transport text.
decode(data) == IF data.kind = "bad" THEN "MalformedPayload" ELSE "bytes"

NoText(m) ==
  /\ m.inputTranscription = << >>
  /\ m.outputTranscription = << >>
  /\ ~m.turnComplete

\* Messages of SpecSched: audio payloads and interruption signals.
AudioMsgs == {m \in Msgs : NoText(m)}

\* Messages of SpecText: transcription fragments and turn boundaries.
TextMsgs == {m \in Msgs : m.audio.kind = "none" /\ ~m.interrupted}

\* Messages of Spec: one-tick chunks and interruption signals.
LifeMsgs == {m \in AudioMsgs : m.audio.kind # "bad" /\ m.audio.dur <= 1}

\* ----------------------------------------------------------------- state
VARIABLES
  status,                  \* useState<SessionStatus>
  messages,                \* useState<ChatMessage[]>
  sessionRef,              \* 0 is null, else the session stored at line 123
  audioContextsRef,        \* 0 is null, else the start that made the pair
  sourcesRef,              \* the Set of sources, in insertion order
  nextStartTimeRef,
  transcriptionBufferRef,  \* [user, model]
  now,                     \* real time (Date.now and the audio clocks)
  starts,                  \* handleStartSession invocations so far
  pc,                      \* where each handleStartSession invocation is
  ws,                      \* state of each session's stream
  wsCloses,                \* close() calls on each session handle
  ctx,                     \* each start's AudioContext pair
  capture,                 \* scriptProcessor of each session is connected
  decodes,                 \* onmessage invocations awaiting decodeAudioData
  nmsgs,                   \* inbound messages handled so far
  interrupts,              \* executions of stopAudio so far
  ended,                   \* sources (by n) whose playback has run to its end
  frames,                  \* onaudioprocess events so far
  pending,                 \* frames waiting on each start's sessionPromise
  sent,                    \* sendRealtimeInput calls so far
  bufFrom                  \* the values of starts at which the text now in
                           \* transcriptionBufferRef was received

vars == << status, messages, sessionRef, audioContextsRef, sourcesRef,
           nextStartTimeRef, transcriptionBufferRef, now, starts, pc, ws,
           wsCloses, ctx, capture, decodes, nmsgs, interrupts, ended,
           frames, pending, sent, bufFrom >>

appVars == << status, messages, sessionRef, audioContextsRef, sourcesRef,
              nextStartTimeRef, transcriptionBufferRef >>

\* ctx.currentTime of the pair made by start k: it runs from the creation of
\* the context and freezes when the context is closed.
currentTime(k) ==
  (IF ctx[k].closedAt >= 0 THEN ctx[k].closedAt ELSE now) - ctx[k].created

\* When a source is heard: a start time already past plays at once.
PlayFrom(src) == Max(src.start, src.at)
PlayTo(src)   == PlayFrom(src) + src.dur

\* The scriptProcessor of session k is connected to a running input context.
Capturing(k) == capture[k] /\ ctx[k].closedAt < 0

\* created and closedAt are readings of now (closedAt -1: not closed); closes
\* counts the close() calls on the pair.
NoCtx == [created |-> 0, closedAt |-> -1, closes |-> 0]

Init ==
  /\ status = IDLE
  /\ messages = << >>
  /\ sessionRef = 0
  /\ audioContextsRef = 0
  /\ sourcesRef = << >>
  /\ nextStartTimeRef = 0
  /\ transcriptionBufferRef = [user |-> << >>, model |-> << >>]
  /\ now = 0
  /\ starts = 0
  /\ pc = [k \in Sessions |-> "none"]
  /\ ws = [k \in Sessions |-> "none"]
  /\ wsCloses = [k \in Sessions |-> 0]
  /\ ctx = [k \in Sessions |-> NoCtx]
  /\ capture = [k \in Sessions |-> FALSE]
  /\ decodes = {}
  /\ nmsgs = 0
  /\ interrupts = 0
  /\ ended = {}
  /\ frames = 0
  /\ pending = [k \in Sessions |-> 0]
  /\ sent = 0
  /\ bufFrom = {}

\* ------------------------------------------------------------- scheduler
\* stopAudio that forgets to reset the cursor (a faulty stopAudio).
stopAudio_keepCursor(srcs, next) == [sources |-> << >>, next |-> next]

\* stopAudio that forgets to clear the set (a faulty stopAudio).
stopAudio_keepSources(srcs, next) == [sources |-> srcs, next |-> 0]

\* stopAudio: stop every source (a stop that throws is swallowed), clear the
\* set, reset the cursor.  Returns the new (sourcesRef, nextStartTimeRef).
stopAudio(srcs, next) == [sources |-> << >>, next |-> 0]

\* The cursor follows the arrival clock (a faulty advanceCursor).
advanceCursor_arrival(next, clock) == clock

\* Line 98: the cursor never falls behind the output clock.
advanceCursor(next, clock) == Max(next, clock)

\* ------------------------------------------------------------ aggregator
\* The messages setMessages appends at a turn boundary (lines 82-90).
NewMessages(buf, t) ==
  LET uText == trim(buf.user)
      mText == trim(buf.model)
  IN  (IF uText # << >>
         THEN << [id |-> <<"u", t>>, role |-> "user", text |-> uText,
                  timestamp |-> t] >>
         ELSE << >>)
      \o
      (IF mText # << >>
         THEN << [id |-> <<"m", t>>, role |-> "model", text |-> mText,
                  timestamp |-> t] >>
         ELSE << >>)

\* ------------------------------------------------------------- the clock
Tick ==
  /\ now' = now + 1
  /\ UNCHANGED << appVars, starts, pc, ws, wsCloses, ctx, capture, decodes,
                  nmsgs, interrupts, ended,
                  frames, pending, sent, bufFrom >>

\* ---------------------------------------------------- handleStartSession
\* Lines 45-56, up to the await of getUserMedia.  The button calls it when
\* the status is not ACTIVE and is disabled while CONNECTING (lines 204-205).
handleStartSession ==
  /\ status \in {IDLE, ERROR}
  /\ LET k == starts + 1 IN
       /\ starts' = k
       /\ IF apiKey
            THEN /\ status' = CONNECTING
                 /\ ctx' = [ctx EXCEPT ![k] = [created |-> now, closedAt |-> -1,
                                               closes |-> 0]]
                 /\ audioContextsRef' = k
                 /\ pc' = [pc EXCEPT ![k] = "getUserMedia"]
            ELSE /\ status' = ERROR
                 /\ pc' = [pc EXCEPT ![k] = "done"]
                 /\ UNCHANGED << ctx, audioContextsRef >>
  /\ UNCHANGED << messages, sessionRef, sourcesRef, nextStartTimeRef,
                  transcriptionBufferRef, now, ws, wsCloses, capture,
                  decodes, nmsgs, interrupts, ended,
                  frames, pending, sent, bufFrom >>

\* getUserMedia resolves: ai.live.connect is called (line 58) and the
\* handler awaits sessionPromise (line 123).
getUserMediaResolved(k) ==
  /\ pc[k] = "getUserMedia"
  /\ pc' = [pc EXCEPT ![k] = "sessionPromise"]
  /\ ws' = [ws EXCEPT ![k] = "connecting"]
  /\ UNCHANGED << appVars, now, starts, wsCloses, ctx, capture, decodes,
                  nmsgs, interrupts, ended,
                  frames, pending, sent, bufFrom >>

\* getUserMedia rejects: the catch of lines 124-128.
getUserMediaRejected(k) ==
  /\ pc[k] = "getUserMedia"
  /\ pc' = [pc EXCEPT ![k] = "done"]
  /\ status' = ERROR
  /\ UNCHANGED << messages, sessionRef, audioContextsRef, sourcesRef,
                  nextStartTimeRef, transcriptionBufferRef, now, starts, ws,
                  wsCloses, ctx, capture, decodes, nmsgs, interrupts, ended,
                  frames, pending, sent, bufFrom >>

\* sessionPromise rejects before the stream opened: the same catch.
sessionPromiseRejected(k) ==
  /\ pc[k] = "sessionPromise"
  /\ ws[k] = "connecting"
  /\ pc' = [pc EXCEPT ![k] = "done"]
  /\ ws' = [ws EXCEPT ![k] = "closed"]
  /\ status' = ERROR
  /\ UNCHANGED << messages, sessionRef, audioContextsRef, sourcesRef,
                  nextStartTimeRef, transcriptionBufferRef, now, starts,
                  wsCloses, ctx, capture, decodes, nmsgs, interrupts, ended,
                  frames, pending, sent, bufFrom >>

\* sessionPromise resolves (the stream has opened): line 123 stores the
\* handle, then the callbacks that line 68 queued on the promise send their
\* frames.
sessionPromiseResolved(k) ==
  /\ pc[k] = "sessionPromise"
  /\ ws[k] \notin {"none", "connecting"}
  /\ pc' = [pc EXCEPT ![k] = "done"]
  /\ sessionRef' = k
  /\ sent' = sent + pending[k]
  /\ pending' = [pending EXCEPT ![k] = 0]
  /\ UNCHANGED << status, messages, audioContextsRef, sourcesRef,
                  nextStartTimeRef, transcriptionBufferRef, now, starts, ws,
                  wsCloses, ctx, capture, decodes, nmsgs, interrupts, ended,
                  frames, bufFrom >>

\* ------------------------------------------------------ stream callbacks
\* onopen, lines 61-72.
onopen(k) ==
  /\ ws[k] = "connecting"
  /\ ws' = [ws EXCEPT ![k] = "open"]
  /\ status' = ACTIVE
  /\ capture' = [capture EXCEPT ![k] = TRUE]
  /\ UNCHANGED << messages, sessionRef, audioContextsRef, sourcesRef,
                  nextStartTimeRef, transcriptionBufferRef, now, starts, pc,
                  wsCloses, ctx, decodes, nmsgs, interrupts, ended,
                  frames, pending, sent, bufFrom >>

\* onaudioprocess of session k's scriptProcessor, lines 65-69: the frame is
\* sent by a callback on that start's sessionPromise, at once when the
\* promise has resolved and when it resolves otherwise.
onaudioprocess(k) ==
  /\ Capturing(k)
  /\ frames' = frames + 1
  /\ IF pc[k] = "done"
       THEN sent' = sent + 1 /\ pending' = pending
       ELSE pending' = [pending EXCEPT ![k] = @ + 1] /\ sent' = sent
  /\ UNCHANGED << appVars, now, starts, pc, ws, wsCloses, ctx, capture,
                  decodes, nmsgs, interrupts, ended, bufFrom >>

\* A turn boundary that replaces the log (a faulty Transcribed).
Transcribed_replace(buf, log, m, t) ==
  LET b1 == [user  |-> buf.user \o m.inputTranscription,
             model |-> buf.model \o m.outputTranscription]
  IN  IF m.turnComplete
        THEN [buf |-> [user |-> << >>, model |-> << >>],
              log |-> NewMessages(b1, t)]
        ELSE [buf |-> b1, log |-> log]

\* The transcription part of onmessage, lines 75-92: the accumulators and
\* the log after it.
Transcribed(buf, log, m, t) ==
  LET b1 == [user  |-> buf.user \o m.inputTranscription,
             model |-> buf.model \o m.outputTranscription]
  IN  IF m.turnComplete
        THEN [buf |-> [user |-> << >>, model |-> << >>],
              log |-> log \o NewMessages(b1, t)]
        ELSE [buf |-> b1, log |-> log]

\* onmessage, lines 73-108, up to the await of decodeAudioData (line 99) or,
\* without a decodable audio payload, to its end.
onmessage(k, m) ==
  /\ ws[k] \in {"open", "closing"}
  /\ nmsgs' = nmsgs + 1
  /\ LET tr == Transcribed(transcriptionBufferRef, messages, m, now) IN
       /\ transcriptionBufferRef' = tr.buf
       /\ messages' = tr.log
  /\ LET said == m.inputTranscription \o m.outputTranscription IN
       bufFrom' = IF m.turnComplete THEN {}
                  ELSE IF \E i \in 1..Len(said) : said[i] # " "
                         THEN bufFrom \cup {starts}
                         ELSE bufFrom
  /\ IF m.audio.kind # "none" /\ audioContextsRef # 0
       THEN LET c == audioContextsRef IN
            /\ nextStartTimeRef' =
                 advanceCursor(nextStartTimeRef, currentTime(c))
            /\ sourcesRef' = sourcesRef
            /\ interrupts' = interrupts
            /\ IF decode(m.audio) = "MalformedPayload"
                 THEN decodes' = decodes      \* the handler's promise rejects
                 ELSE decodes' = decodes \cup
                        {[n |-> nmsgs + 1, dur |-> m.audio.dur,
                          interrupted |-> m.interrupted, ctx |-> c,
                          arr |-> currentTime(c), rcv |-> interrupts]}
       ELSE /\ decodes' = decodes
            /\ IF m.interrupted
                 THEN LET r == stopAudio(sourcesRef, nextStartTimeRef) IN
                      /\ sourcesRef' = r.sources
                      /\ nextStartTimeRef' = r.next
                      /\ interrupts' = interrupts + 1
                 ELSE UNCHANGED << sourcesRef, nextStartTimeRef, interrupts >>
  /\ UNCHANGED << status, sessionRef, audioContextsRef, now, starts, pc, ws,
                  wsCloses, ctx, capture, ended,
                  frames, pending, sent >>

\* The rest of onmessage once decodeAudioData has resolved, lines 100-107.
decodeAudioDataResolved(d) ==
  /\ d \in decodes
  /\ decodes' = decodes \ {d}
  /\ LET \* n: the message's arrival number, arr: the output clock when it
         \* arrived, seen: the messages that had arrived when it was scheduled,
         \* ctx: the context the source belongs to, at: that context's clock
         \* when source.start was called, rcv and ep: the executions of
         \* stopAudio before the message arrived and before it was scheduled
         source == [start |-> nextStartTimeRef, dur |-> d.dur, n |-> d.n,
                    arr |-> d.arr, seen |-> nmsgs, ctx |-> d.ctx,
                    at |-> currentTime(d.ctx), rcv |-> d.rcv,
                    ep |-> interrupts]
         srcs1  == Append(sourcesRef, source)
         next1  == nextStartTimeRef + d.dur
     IN  IF d.interrupted
           THEN LET r == stopAudio(srcs1, next1) IN
                /\ sourcesRef' = r.sources
                /\ nextStartTimeRef' = r.next
                /\ interrupts' = interrupts + 1
           ELSE /\ sourcesRef' = srcs1
                /\ nextStartTimeRef' = next1
                /\ interrupts' = interrupts
  /\ UNCHANGED << status, messages, sessionRef, audioContextsRef,
                  transcriptionBufferRef, now, starts, pc, ws, wsCloses, ctx,
                  capture, nmsgs, ended,
                  frames, pending, sent, bufFrom >>

\* onerror, lines 109-112.  The stream that reported the error is failing;
\* its close event follows.
onerror(k) ==
  /\ ws[k] \in {"connecting", "open"}
  /\ ws' = [ws EXCEPT ![k] = "failed"]
  /\ status' = ERROR
  /\ UNCHANGED << messages, sessionRef, audioContextsRef, sourcesRef,
                  nextStartTimeRef, transcriptionBufferRef, now, starts, pc,
                  wsCloses, ctx, capture, decodes, nmsgs, interrupts, ended,
                  frames, pending, sent, bufFrom >>

\* onclose, line 113.
onclose(k) ==
  /\ ws[k] \in {"open", "closing", "failed"}
  /\ ws' = [ws EXCEPT ![k] = "closed"]
  /\ status' = IDLE
  /\ UNCHANGED << messages, sessionRef, audioContextsRef, sourcesRef,
                  nextStartTimeRef, transcriptionBufferRef, now, starts, pc,
                  wsCloses, ctx, capture, decodes, nmsgs, interrupts, ended,
                  frames, pending, sent, bufFrom >>

\* ----------------------------------------------------- handleStopSession
\* Lines 131-139.  The button calls it when the status is ACTIVE (line 204).
handleStopSession ==
  /\ status = ACTIVE
  /\ IF sessionRef # 0
       THEN /\ wsCloses' = [wsCloses EXCEPT ![sessionRef] = @ + 1]
            /\ ws' = [ws EXCEPT ![sessionRef] =
                        IF @ = "open" THEN "closing" ELSE @]
       ELSE UNCHANGED << wsCloses, ws >>
  /\ LET r == stopAudio(sourcesRef, nextStartTimeRef) IN
       /\ sourcesRef' = r.sources
       /\ nextStartTimeRef' = r.next
       /\ interrupts' = interrupts + 1
  /\ IF audioContextsRef # 0
       THEN ctx' = [ctx EXCEPT ![audioContextsRef] =
                      [@ EXCEPT !.closes = @ + 1,
                                !.closedAt = IF @ >= 0 THEN @ ELSE now]]
       ELSE UNCHANGED ctx
  /\ status' = IDLE
  /\ UNCHANGED << messages, sessionRef, audioContextsRef,
                  transcriptionBufferRef, now, starts, pc, capture, decodes,
                  nmsgs, ended,
                  frames, pending, sent, bufFrom >>

\* The output context has played source i to its end.  The source was
\* created on lines 100-102 without an onended handler, so no code runs.
onended(i) ==
  /\ i \in 1..Len(sourcesRef)
  /\ sourcesRef[i].n \notin ended
  /\ currentTime(sourcesRef[i].ctx) >= PlayTo(sourcesRef[i])
  /\ ended' = ended \cup {sourcesRef[i].n}
  /\ UNCHANGED << appVars, now, starts, pc, ws, wsCloses, ctx, capture,
                  decodes, nmsgs, interrupts,
                  frames, pending, sent, bufFrom >>

\* ----------------------------------------------------- the specifications
\* The session's life with at most maxStarts start requests.
Lifecycle(maxStarts) ==
  \/ starts < maxStarts /\ handleStartSession
  \/ \E k \in Sessions : getUserMediaResolved(k)
  \/ \E k \in Sessions : getUserMediaRejected(k)
  \/ \E k \in Sessions : sessionPromiseRejected(k)
  \/ \E k \in Sessions : sessionPromiseResolved(k)
  \/ \E k \in Sessions : onopen(k)
  \/ \E k \in Sessions : onerror(k)
  \/ \E k \in Sessions : onclose(k)
  \/ handleStopSession

\* At most maxMsgs inbound messages, drawn from M.
Inbound(M, maxMsgs) ==
  nmsgs < maxMsgs /\ \E k \in Sessions, m \in M : onmessage(k, m)

Decoded == \E d \in decodes : decodeAudioDataResolved(d)

Clock(maxNow) == now < maxNow /\ Tick

\* Sessions with audio chunks and interruptions, no clock.
Next == Lifecycle(MaxStarts) \/ Inbound(LifeMsgs, MaxMsgs) \/ Decoded

Spec == Init /\ [][Next]_vars

\* The playback scheduler against the output clock.
NextSched ==
  Lifecycle(SchedStarts) \/ Inbound(AudioMsgs, SchedMsgs) \/ Decoded
    \/ Clock(MaxNow)

SpecSched == Init /\ [][NextSched]_vars

\* Playback running to its end.
Ended == \E i \in 1..Len(sourcesRef) : onended(i)

NextPlay ==
  Lifecycle(SchedStarts) \/ Inbound(LifeMsgs, MaxMsgs) \/ Decoded
    \/ Clock(MaxNow) \/ Ended

SpecPlay == Init /\ [][NextPlay]_vars

\* At most maxFrames captured frames.
Capture(maxFrames) ==
  frames < maxFrames /\ \E k \in Sessions : onaudioprocess(k)

\* The capture path over the session's life.
NextCapture == Lifecycle(MaxStarts) \/ Capture(MaxFrames)

SpecCapture == Init /\ [][NextCapture]_vars

\* The transcription aggregator.
NextText == Lifecycle(TextStarts) \/ Inbound(TextMsgs, MaxTextMsgs)

SpecText == Init /\ [][NextText]_vars

\* Turns across sessions.
NextTurns == Lifecycle(MaxStarts) \/ Inbound(TextMsgs, MaxTextMsgs)

SpecTurns == Init /\ [][NextTurns]_vars

\* The conversation log against the clock.
NextLog ==
  Lifecycle(TextStarts) \/ Inbound(TextMsgs, MaxTextMsgs) \/ Clock(MaxNow)

SpecLog == Init /\ [][NextLog]_vars

\* ------------------------------------------------------------ properties
Last(q) == q[Len(q)]

\* C1: taking the sources in the order they were scheduled since the last
\* interrupt, each starts no earlier than the previous one's start plus its
\* duration, and the cursor is never before the end of the last one.  In
\* particular, when chunk A is the first message, arrives at clock 0 and is
\* scheduled before any other message arrives, it starts at 0; when chunk B
\* is the second message, arrives no later than A's end and is scheduled
\* before a third message arrives, it starts at A's end (not at its arrival)
\* and leaves the cursor at the end of B.
C1_NoOverlap ==
  /\ \A i \in 1..(Len(sourcesRef) - 1) :
        sourcesRef[i + 1].start >= sourcesRef[i].start + sourcesRef[i].dur
  /\ sourcesRef # << >> =>
        nextStartTimeRef >= Last(sourcesRef).start + Last(sourcesRef).dur
  /\ \A i \in 1..Len(sourcesRef) :
        LET A == sourcesRef[i] IN
        (A.n = 1 /\ A.arr = 0 /\ A.seen = 1) => A.start = 0
  /\ \A i \in 1..(Len(sourcesRef) - 1) :
        LET A == sourcesRef[i]
            B == sourcesRef[i + 1]
        IN  (A.n = 1 /\ A.start = 0 /\ B.n = 2 /\ B.seen = 2
               /\ B.arr <= A.dur) =>
              /\ B.start = A.dur
              /\ nmsgs = 2 => nextStartTimeRef = A.dur + B.dur

\* C1 witness: A (two ticks long) arrived at clock 0 and starts at 0; B
\* arrived at clock 1, starts at 2 and leaves the cursor at 4.
C1_Witness ==
  /\ Len(sourcesRef) = 2
  /\ sourcesRef[1].arr = 0 /\ sourcesRef[1].start = 0 /\ sourcesRef[1].dur = 2
  /\ sourcesRef[2].arr = 1 /\ sourcesRef[2].start = 2 /\ sourcesRef[2].dur = 2
  /\ nextStartTimeRef = 4

\* C2: every execution of stopAudio leaves the active set empty and the
\* cursor at zero, whatever the set held before; stopAudio applied to its own
\* result changes nothing; and the set grows only when a decode continuation
\* schedules a chunk (the code registers no playback-completion callback).
C2_Interrupt ==
  [][ /\ interrupts' # interrupts =>
            sourcesRef' = << >> /\ nextStartTimeRef' = 0
      /\ LET r == stopAudio(sourcesRef, nextStartTimeRef)
         IN  stopAudio(r.sources, r.next) = r
      /\ Len(sourcesRef') > Len(sourcesRef) =>
            /\ Cardinality(decodes') < Cardinality(decodes)
            /\ interrupts' = interrupts ]_vars

\* C2 witness: stopAudio has run on a non-empty set and then again on the
\* empty one.
C2_Witness ==
  /\ interrupts >= 2
  /\ sourcesRef = << >>
  /\ nextStartTimeRef = 0
  /\ nmsgs >= 1
  /\ now >= 1

\* Spaces(k): k whitespace characters.
Spaces(k) == [i \in 1..k |-> " "]

Blank(s) == \A i \in 1..Len(s) : s[i] = " "

\* t is s without its leading and trailing whitespace.
IsTrimOf(t, s) ==
  /\ t # << >>
  /\ t[1] # " "
  /\ t[Len(t)] # " "
  /\ \E i, j \in 0..Len(s) : s = Spaces(i) \o t \o Spaces(j)

\* What a turn boundary must do to the log and the accumulators, given the
\* accumulated texts u and m (this message's own fragments included).
TurnBoundaryPost(u, m) ==
  LET new == SubSeq(messages', Len(messages) + 1, Len(messages')) IN
  /\ transcriptionBufferRef' = [user |-> << >>, model |-> << >>]
  /\ Len(messages') >= Len(messages)
  /\ SubSeq(messages', 1, Len(messages)) = messages
  /\ Len(new) = (IF Blank(u) THEN 0 ELSE 1) + (IF Blank(m) THEN 0 ELSE 1)
  /\ ~Blank(u) => new[1].role = "user" /\ IsTrimOf(new[1].text, u)
  /\ ~Blank(m) => /\ Last(new).role = "model"
                  /\ IsTrimOf(Last(new).text, m)

\* C3: a message with the turn-boundary signal empties both accumulators and
\* extends the log by exactly one message per accumulator that is not blank
\* (0, 1 or 2), with the trimmed text and the role, user before model; with
\* both accumulators empty and no new fragment it appends nothing.
C3_TurnBoundary ==
  [][ \A k \in Sessions, m \in TextMsgs :
        (onmessage(k, m) /\ m.turnComplete) =>
          TurnBoundaryPost(
            transcriptionBufferRef.user \o m.inputTranscription,
            transcriptionBufferRef.model \o m.outputTranscription) ]_vars

\* C3 witness: two messages were handled, the log holds a user message
\* followed by a model message and both accumulators are empty.
C3_Witness ==
  /\ nmsgs = 2
  /\ Len(messages) = 2
  /\ messages[1].role = "user"
  /\ messages[2].role = "model"
  /\ transcriptionBufferRef = [user |-> << >>, model |-> << >>]

\* C7: the log is append-only: every step leaves the previous log as a
\* prefix of the new one.
C7_AppendOnly ==
  [][ /\ Len(messages') >= Len(messages)
      /\ SubSeq(messages', 1, Len(messages)) = messages ]_vars

\* C7 witness: the log holds messages of two turns and the session has been
\* stopped or closed since.
C7_Witness ==
  /\ Len(messages) >= 2
  /\ messages[1].role = messages[2].role
  /\ status = IDLE
  /\ starts >= 1

\* The status changes the state machine of the claim allows.
AllowedTransitions ==
  { <<IDLE, CONNECTING>>, <<CONNECTING, ACTIVE>>, <<CONNECTING, ERROR>>,
    <<ACTIVE, ERROR>>, <<ACTIVE, IDLE>>, <<ERROR, CONNECTING>> }

\* C4: every change of the status is one of the allowed transitions; once
\* the status is ERROR it stays ERROR until a start request makes it
\* CONNECTING.
C4_Transitions ==
  [][ status' # status => << status, status' >> \in AllowedTransitions ]_vars

\* C5: no stream handle and no audio context is closed more than once, and a
\* stop request made while the status is IDLE changes nothing.
C5_CloseOnce ==
  /\ \A k \in Sessions : wsCloses[k] <= 1 /\ ctx[k].closes <= 1
  /\ status = IDLE => ~ENABLED handleStopSession

\* C6: handling an audio payload that fails to decode leaves the cursor, the
\* active set, both accumulators and the status as they were.
C6_MalformedDropped ==
  [][ \A k \in Sessions, m \in AudioMsgs :
        (onmessage(k, m) /\ decode(m.audio) = "MalformedPayload") =>
          UNCHANGED << nextStartTimeRef, sourcesRef, transcriptionBufferRef,
                       status >> ]_vars

\* C8: an inbound message, or the continuation of one after its decode,
\* handled while the status is not ACTIVE changes neither the accumulators,
\* nor the log, nor the cursor, nor the active set.
C8_IgnoredWhenNotActive ==
  [][ (status # ACTIVE /\ (nmsgs' # nmsgs \/ decodes' # decodes)) =>
        UNCHANGED << transcriptionBufferRef, messages, nextStartTimeRef,
                     sourcesRef >> ]_vars

\* Every stream is closed or closing, no capture source produces frames and
\* the active set is empty.
Released ==
  /\ \A k \in Sessions : ws[k] \notin {"connecting", "open"}
  /\ \A k \in Sessions : ~Capturing(k)
  /\ sourcesRef = << >>

\* C9: whenever the status becomes ERROR, the stream is closed, the capture
\* source has stopped producing frames and the active set is empty.
C9_ErrorReleases ==
  [][ (status # ERROR /\ status' = ERROR) => Released' ]_vars

\* C10: whenever the status goes from ACTIVE to IDLE, the stream is closed,
\* the active set is empty, the cursor is zero and the capture source is
\* released.
C10_IdleReleases ==
  [][ (status = ACTIVE /\ status' = IDLE) =>
        (Released' /\ nextStartTimeRef' = 0) ]_vars

\* C11: no two sources of the active set (scheduled and not stopped by an
\* interrupt) on the same output context have overlapping playback
\* intervals [PlayFrom, PlayTo).
C11_NoOverlapPlayback ==
  \A i, j \in 1..Len(sourcesRef) :
    (i < j /\ sourcesRef[i].ctx = sourcesRef[j].ctx) =>
      \/ PlayTo(sourcesRef[i]) <= PlayFrom(sourcesRef[j])
      \/ PlayTo(sourcesRef[j]) <= PlayFrom(sourcesRef[i])

\* C12: a message received while the status is ACTIVE that carries the
\* interruption signal makes stopAudio run, in the handler itself or in its
\* continuation after the decode, whatever else the message carries.
C12_InterruptionHonoured ==
  [][ \A k \in Sessions, m \in AudioMsgs :
        (onmessage(k, m) /\ status = ACTIVE /\ m.interrupted) =>
          \/ interrupts' = interrupts + 1
          \/ \E d \in decodes' \ decodes : d.interrupted ]_vars

\* C13: of two scheduled sources, the one whose message was received first
\* has the earlier (or equal) scheduled start time.
C13_ArrivalOrder ==
  \A i, j \in 1..Len(sourcesRef) :
    sourcesRef[i].n < sourcesRef[j].n =>
      sourcesRef[i].start <= sourcesRef[j].start

\* C14: when a source has played to its end it is no longer a member of the
\* active set.
C14_CompletionRemoves ==
  [][ \A i \in 1..Len(sourcesRef) :
        onended(i) =>
          \A j \in 1..Len(sourcesRef') :
            sourcesRef'[j].n # sourcesRef[i].n ]_vars

\* C15 as stated: every member of the active set comes from a message
\* received after the last execution of stopAudio.
C15_ReceivedAfterInterrupt ==
  \A i \in 1..Len(sourcesRef) : sourcesRef[i].rcv = interrupts

\* C15: every member of the active set was scheduled (started and added)
\* after the last execution of stopAudio; a chunk received before it whose
\* decode was still pending is scheduled all the same when the decode
\* completes.
C15_ScheduledAfterInterrupt ==
  \A i \in 1..Len(sourcesRef) : sourcesRef[i].ep = interrupts

\* C15 witness: after two interrupts the active set holds a chunk that was
\* received before the last of them, next to one received after it.
C15_Witness ==
  /\ interrupts = 2
  /\ \E i, j \in 1..Len(sourcesRef) :
       sourcesRef[i].rcv < interrupts /\ sourcesRef[j].rcv = interrupts

\* C16: a stop request handled while the status is ACTIVE closes the stream
\* of the most recent start request: after the step that stream is neither
\* open nor still connecting.
C16_StopClosesStream ==
  [][ handleStopSession => ws'[starts] \notin {"open", "connecting"} ]_vars

\* C17: a captured frame is handed to the outbound stream (sendRealtimeInput
\* is called) only while the status is ACTIVE.
C17_SentOnlyWhileActive ==
  [][ sent' > sent => status = ACTIVE ]_vars

\* C18: the messages of the conversation log have pairwise distinct ids.
C18_DistinctIds ==
  \A i, j \in 1..Len(messages) :
    i # j => messages[i].id # messages[j].id

\* C19: once a later start request has been made, an onclose, onerror or
\* onmessage of an earlier session's stream changes neither the status, nor
\* the scheduler (cursor, active set), nor the aggregator (accumulators, log).
C19_EarlierSessionIsolated ==
  [][ \A k \in Sessions :
        ( /\ k < starts
          /\ \/ onclose(k)
             \/ onerror(k)
             \/ \E m \in LifeMsgs : onmessage(k, m) )
        => UNCHANGED << status, nextStartTimeRef, sourcesRef,
                        transcriptionBufferRef, messages >> ]_vars

\* C20: the text finalized at a turn boundary of the most recent session was
\* received after the previous turn boundary and since the most recent start
\* request: no text accumulated before a stop, an error or a close and a
\* later start is part of it.
C20_NoLeakAcrossSessions ==
  [][ \A k \in Sessions, m \in TextMsgs :
        (k = starts /\ onmessage(k, m) /\ m.turnComplete) =>
          bufFrom \subseteq {starts} ]_vars

====
